---- MODULE Spec2Model ----
(***************************************************************************)
(* The game engine of the medical board game (src/game_logic.py; the same  *)
(* classes are repeated in src/app.py): hospitals with per-department bed  *)
(* records, rounds that issue one patient per hospital, diagnoses that are *)
(* admitted, referred or scored as wrong, the rankings and the bounded     *)
(* activity log.                                                           *)
(*                                                                         *)
(* Left out of the state, because no operation ever reads them: the icon   *)
(* and colour of a department, the admission_time of an admitted-patient   *)
(* record and the "[HH:MM:SS]" prefix of a log line.  Messages are kept as *)
(* records of the values the source interpolates into the text.            *)
(*                                                                         *)
(* Time: time.time() in start_new_round and the caller's diagnosis_time    *)
(* are inputs.  The engine only ever subtracts the timer of the current    *)
(* round from a submitted time, so the inputs are small integers (seconds).*)
(***************************************************************************)
EXTENDS Integers, Sequences, FiniteSets, TLC

VARIABLES
    hospitals,          \* GameEngine.hospitals: sequence of Hospital records
    current_round,      \* GameEngine.current_round
    game_active,        \* GameEngine.game_active
    current_patients,   \* GameEngine.current_patients: hospital name -> patient
    diagnosis_timers,   \* GameEngine.diagnosis_timers: hospital name -> time
    game_log,           \* GameEngine.game_log
    outcome,            \* the operation that ran last and the value it returned
    resolved,           \* per hospital (by position): submit_diagnosis calls
                        \* that returned success=True (history, not program state)
    submitted           \* names whose submit_diagnosis returned success=True since
                        \* the last start_new_round (history, not program state)

vars == <<hospitals, current_round, game_active, current_patients,
          diagnosis_timers, game_log, outcome, resolved, submitted>>

engine == <<hospitals, current_round, game_active, current_patients,
            diagnosis_timers, game_log>>

----------------------------------------------------------------------------
(* Static configuration *)

DeptNames == {"Emergency", "Surgery", "Pediatrics", "Cardiology", "ICU", "Orthopedics"}

DEPARTMENTS ==
    [d \in DeptNames |->
        CASE d = "Emergency"   -> 4
          [] d = "Surgery"     -> 3
          [] d = "Pediatrics"  -> 3
          [] d = "Cardiology"  -> 2
          [] d = "ICU"         -> 2
          [] d = "Orthopedics" -> 2]

Case(complaint, correct_dept, difficulty, points, options) ==
    [complaint |-> complaint, correct_dept |-> correct_dept,
     difficulty |-> difficulty, points |-> points, options |-> options]

PATIENT_CASES == <<
    Case("Severe chest pain radiating to left arm", "Cardiology", "Medium", 4,
         <<"Cardiology", "Emergency", "Surgery">>),
    Case("High fever and rash in child", "Pediatrics", "Easy", 3,
         <<"Pediatrics", "Emergency", "ICU">>),
    Case("Compound fracture of femur", "Orthopedics", "Medium", 4,
         <<"Orthopedics", "Surgery", "Emergency">>),
    Case("Difficulty breathing and low oxygen", "ICU", "Hard", 5,
         <<"ICU", "Emergency", "Cardiology">>),
    Case("Appendicitis symptoms", "Surgery", "Medium", 4,
         <<"Surgery", "Emergency", "ICU">>),
    Case("Multiple trauma from car accident", "Emergency", "Hard", 5,
         <<"Emergency", "Surgery", "ICU">>),
    Case("Burn injuries 30% body surface", "Surgery", "Hard", 5,
         <<"Surgery", "Emergency", "ICU">>),
    Case("Neonatal jaundice", "Pediatrics", "Easy", 3,
         <<"Pediatrics", "Emergency", "ICU">>),
    Case("Heart attack symptoms", "Cardiology", "Medium", 4,
         <<"Cardiology", "Emergency", "ICU">>),
    Case("Dislocated shoulder", "Orthopedics", "Easy", 3,
         <<"Orthopedics", "Emergency", "Surgery">>) >>

\* time_taken < 15 earns the bonus
TIME_BONUS_LIMIT == 15

\* "Keep only last 50 log entries"
LOG_LIMIT == 50

\* MAX_ROUNDS of app.py (the engine itself never reads it)
MAX_ROUNDS == 15

----------------------------------------------------------------------------
(* Python dictionaries *)

EmptyDict == [k \in {} |-> TRUE]

\* d[k] = v
DictPut(d, k, v) == [x \in (DOMAIN d) \cup {k} |-> IF x = k THEN v ELSE d[x]]

\* (variant: every other key is removed, k is kept)
DictPopOthers(d, k) == [x \in (DOMAIN d) \cap {k} |-> d[x]]

\* d.pop(k, None)
DictPop(d, k) == [x \in (DOMAIN d) \ {k} |-> d[x]]

\* (variant: the last record of the list is taken out)
ListPopLast(seq, i) == SubSeq(seq, 1, Len(seq) - 1)

\* seq.pop(i) with 0 <= i < len(seq): the list without its element at 0-based index i
ListPop(seq, i) == SubSeq(seq, 1, i) \o SubSeq(seq, i + 2, Len(seq))

Max(a, b) == IF a >= b THEN a ELSE b

----------------------------------------------------------------------------
(* Hospital *)

Hospital(name) ==
    [name |-> name,
     score |-> 0,
     departments |-> [d \in DeptNames |->
                        [total_beds |-> DEPARTMENTS[d],
                         occupied_beds |-> 0,
                         available_beds |-> DEPARTMENTS[d],
                         patients |-> <<>>]],
     admitted_patients |-> <<>>,
     referred_count |-> 0,
     diagnosis_correct |-> 0,
     diagnosis_wrong |-> 0]

PatientRecord(patient, department) ==
    [complaint |-> patient.complaint,
     department |-> department,
     points |-> patient.points,
     status |-> "Admitted"]

\* (variant: the bed test off by one)
CanAdmitOffByOne(h, department) == h.departments[department].available_beds >= 0

\* the value admit_patient returns
CanAdmit(h, department) == h.departments[department].available_beds > 0

\* (variant: the referred patient's department gives up a bed)
refer_patientFreesABed(h, patient) ==
    LET dept == h.departments[patient.correct_dept]
    IN [h EXCEPT !.referred_count = h.referred_count + 1,
                 !.score = h.score - 1,
                 !.departments[patient.correct_dept] =
                     [dept EXCEPT !.occupied_beds = dept.occupied_beds - 1,
                                  !.available_beds = dept.available_beds + 1]]

\* (variant: a referral is also counted as a correct diagnosis)
refer_patientCountedCorrect(h, patient) ==
    [h EXCEPT !.referred_count = h.referred_count + 1,
              !.diagnosis_correct = h.diagnosis_correct + 1,
              !.score = h.score - 1]

\* (variant: a referral is also counted as a wrong diagnosis)
refer_patientCountedWrong(h, patient) ==
    [h EXCEPT !.referred_count = h.referred_count + 1,
              !.diagnosis_wrong = h.diagnosis_wrong + 1,
              !.score = h.score - 1]

\* (variant: without a free bed the record is still put on the admitted list)
admit_patientListedAnyway(h, patient, department) ==
    IF CanAdmit(h, department)
    THEN LET dept == h.departments[department]
             rec  == PatientRecord(patient, department)
         IN [h EXCEPT
               !.departments[department] =
                   [dept EXCEPT !.occupied_beds = dept.occupied_beds + 1,
                                !.available_beds = dept.available_beds - 1,
                                !.patients = Append(dept.patients, rec)],
               !.admitted_patients = Append(h.admitted_patients, rec),
               !.score = h.score + patient.points,
               !.diagnosis_correct = h.diagnosis_correct + 1]
    ELSE [h EXCEPT !.admitted_patients =
                      Append(h.admitted_patients, PatientRecord(patient, department))]

\* the hospital after admit_patient(patient, department)
admit_patient(h, patient, department) ==
    IF CanAdmit(h, department)
    THEN LET dept == h.departments[department]
             rec  == PatientRecord(patient, department)
         IN [h EXCEPT
               !.departments[department] =
                   [dept EXCEPT !.occupied_beds = dept.occupied_beds + 1,
                                !.available_beds = dept.available_beds - 1,
                                !.patients = Append(dept.patients, rec)],
               !.admitted_patients = Append(h.admitted_patients, rec),
               !.score = h.score + patient.points,
               !.diagnosis_correct = h.diagnosis_correct + 1]
    ELSE h

refer_patient(h, patient) ==
    [h EXCEPT !.referred_count = h.referred_count + 1,
              !.score = h.score - 1]

\* (variant: a wrong diagnosis is counted twice)
misdiagnoseCountedTwice(h, patient) ==
    [h EXCEPT !.diagnosis_wrong = h.diagnosis_wrong + 2,
              !.score = h.score - (patient.points \div 2)]

\* (variant: half the points rounded up)
misdiagnoseRoundedUp(h, patient) ==
    [h EXCEPT !.diagnosis_wrong = h.diagnosis_wrong + 1,
              !.score = h.score - ((patient.points + 1) \div 2)]

misdiagnose(h, patient) ==
    [h EXCEPT !.diagnosis_wrong = h.diagnosis_wrong + 1,
              !.score = h.score - (patient.points \div 2)]

\* the index test of discharge_patient
CanDischarge(h, department, patient_index) ==
    0 <= patient_index /\ patient_index < Len(h.departments[department].patients)

\* the value discharge_patient returns: the record taken out, <<>> for None
Discharged(h, department, patient_index) ==
    IF CanDischarge(h, department, patient_index)
    THEN <<h.departments[department].patients[patient_index + 1]>>
    ELSE <<>>

\* the hospital after discharge_patient(department, patient_index)
discharge_patient(h, department, patient_index) ==
    IF CanDischarge(h, department, patient_index)
    THEN LET dept == h.departments[department]
         IN [h EXCEPT
               !.departments[department] =
                   [dept EXCEPT !.patients = ListPop(dept.patients, patient_index),
                                !.occupied_beds = dept.occupied_beds - 1,
                                !.available_beds = dept.available_beds + 1]]
    ELSE h

\* diagnosis_correct / max(1, diagnosis_correct + diagnosis_wrong) * 100, as the
\* exact fraction <<numerator, denominator>>
Accuracy(h) ==
    <<h.diagnosis_correct * 100, Max(1, h.diagnosis_correct + h.diagnosis_wrong)>>

RECURSIVE SumOver(_, _)
SumOver(f, S) ==
    IF S = {} THEN 0
    ELSE LET x == CHOOSE y \in S : TRUE IN f[x] + SumOver(f, S \ {x})

get_stats(h) ==
    [name |-> h.name,
     score |-> h.score,
     admitted |-> Len(h.admitted_patients),
     referred |-> h.referred_count,
     diagnosis_accuracy |-> Accuracy(h),
     bed_occupancy_rate |->
        <<SumOver([d \in DeptNames |-> h.departments[d].occupied_beds], DeptNames) * 100,
          SumOver([d \in DeptNames |-> h.departments[d].total_beds], DeptNames)>>]

----------------------------------------------------------------------------
(* GameEngine helpers *)

\* (variant: the cut keeps the first 50 entries)
add_to_logKeepsOldest(log, message) ==
    LET appended == Append(log, message)
    IN IF Len(appended) > 50 THEN SubSeq(appended, 1, 50) ELSE appended

\* add_to_log: the log after the append and the cut to the last 50 entries
add_to_log(log, message) ==
    LET appended == Append(log, message)
    IN IF Len(appended) > LOG_LIMIT
       THEN SubSeq(appended, Len(appended) - LOG_LIMIT + 1, Len(appended))
       ELSE appended

\* a log line, as the values its text is formatted from
LogEntry(kind, hospital, round, chosen, detail, teams) ==
    [kind |-> kind, hospital |-> hospital, round |-> round,
     chosen |-> chosen, detail |-> detail, teams |-> teams]

\* "Game started with {n} teams: {names}"
GameStartedLog(team_names) ==
    LogEntry("Game started", "", Len(team_names), "", "", team_names)

\* "Round {n} started - New patients arrived"
RoundStartedLog(round) ==
    LogEntry("Round started", "", round, "", "", <<>>)

\* "{hospital}: Correct diagnosis - {complaint} -> {department}"
CorrectLog(hospital_name, patient, chosen_department) ==
    LogEntry("Correct diagnosis", hospital_name, 0, chosen_department,
             patient.complaint, <<>>)

\* "{hospital}: Correct diagnosis but no beds - patient referred"
ReferredLog(hospital_name) ==
    LogEntry("Correct diagnosis but no beds", hospital_name, 0, "", "", <<>>)

\* "{hospital}: Wrong diagnosis - thought {chosen}, actual {correct}"
WrongLog(hospital_name, patient, chosen_department) ==
    LogEntry("Wrong diagnosis", hospital_name, 0, chosen_department,
             patient.correct_dept, <<>>)

\* (variant: the last hospital of that name is taken)
FindHospitalLast(hs, hospital_name) ==
    IF \E i \in 1..Len(hs) : hs[i].name = hospital_name
    THEN CHOOSE i \in 1..Len(hs) :
            /\ hs[i].name = hospital_name
            /\ \A j \in 1..Len(hs) : hs[j].name = hospital_name => j <= i
    ELSE 0

\* next((h for h in self.hospitals if h.name == hospital_name), None):
\* the position of the first hospital of that name, 0 for None
FindHospital(hs, hospital_name) ==
    IF \E i \in 1..Len(hs) : hs[i].name = hospital_name
    THEN CHOOSE i \in 1..Len(hs) :
            /\ hs[i].name = hospital_name
            /\ \A j \in 1..(i - 1) : hs[j].name # hospital_name
    ELSE 0

\* hospital.name[:3].upper() for the team names of this model
IdPrefix(name) ==
    CASE name = "Alpha" -> "ALP"
      [] name = "Beta"  -> "BET"
      [] name = "Gamma" -> "GAM"
      [] OTHER          -> name

\* (variant: the record is tagged with the id prefix instead of the hospital name)
NewPatientTaggedByPrefix(c, name, round) ==
    [complaint |-> PATIENT_CASES[c].complaint,
     correct_dept |-> PATIENT_CASES[c].correct_dept,
     difficulty |-> PATIENT_CASES[c].difficulty,
     points |-> PATIENT_CASES[c].points,
     options |-> PATIENT_CASES[c].options,
     id |-> <<round, IdPrefix(name)>>,
     hospital |-> IdPrefix(name),
     round |-> round]

\* the patient start_new_round builds for a hospital from case number c
NewPatient(c, name, round) ==
    [complaint |-> PATIENT_CASES[c].complaint,
     correct_dept |-> PATIENT_CASES[c].correct_dept,
     difficulty |-> PATIENT_CASES[c].difficulty,
     points |-> PATIENT_CASES[c].points,
     options |-> PATIENT_CASES[c].options,
     id |-> <<round, IdPrefix(name)>>,
     hospital |-> name,
     round |-> round]

\* (variant: only the first hospital of the list is given a patient)
IssuePatientsFirstOnly(cp, hs, draws, round, n) ==
    IF n = 0 THEN cp
    ELSE DictPut(cp, hs[1].name, NewPatient(draws[1], hs[1].name, round))

\* (variant: a hospital that still has a patient keeps it)
IssuePatientsKeepsPending(cp, hs, draws, round, n) ==
    [name \in (DOMAIN cp) \cup {hs[i].name : i \in 1..n} |->
        IF name \in DOMAIN cp
        THEN cp[name]
        ELSE LET i == CHOOSE k \in 1..n : hs[k].name = name
             IN NewPatient(draws[i], name, round)]

\* the loop of start_new_round over hospitals 1..n: the in-flight map
RECURSIVE IssuePatients(_, _, _, _, _)
IssuePatients(cp, hs, draws, round, n) ==
    IF n = 0 THEN cp
    ELSE DictPut(IssuePatients(cp, hs, draws, round, n - 1),
                 hs[n].name, NewPatient(draws[n], hs[n].name, round))

\* the loop of start_new_round over hospitals 1..n: the timer map
RECURSIVE IssueTimers(_, _, _, _)
IssueTimers(tm, hs, now, n) ==
    IF n = 0 THEN tm
    ELSE DictPut(IssueTimers(tm, hs, now, n - 1), hs[n].name, now)

----------------------------------------------------------------------------
(* State after GameEngine() *)

Init ==
    /\ hospitals = <<>>
    /\ current_round = 0
    /\ game_active = FALSE
    /\ current_patients = EmptyDict
    /\ diagnosis_timers = EmptyDict
    /\ game_log = <<>>
    /\ outcome = [op |-> "__init__"]
    /\ resolved = <<>>
    /\ submitted = {}

----------------------------------------------------------------------------
(* GameEngine.submit_diagnosis, in parts *)

\* (variant: the limit itself still earns the bonus)
TimeBonusInclusive(diagnosis_time, timer) ==
    IF diagnosis_time - timer <= 15 THEN 1 ELSE 0

\* time_bonus = 1 if time_taken < 15 else 0
TimeBonus(diagnosis_time, timer) ==
    IF diagnosis_time - timer < TIME_BONUS_LIMIT THEN 1 ELSE 0

\* (variant: the bonus is reported but not added)
AddTimeBonusDropped(h, time_bonus) == h

\* hospital.score += time_bonus
AddTimeBonus(h, time_bonus) == [h EXCEPT !.score = h.score + time_bonus]

\* the hospital after the diagnosis branches of submit_diagnosis
Diagnose(h, patient, chosen_department, time_bonus) ==
    IF chosen_department = patient.correct_dept
    THEN IF CanAdmit(h, chosen_department)
         THEN AddTimeBonus(admit_patient(h, patient, chosen_department), time_bonus)
         ELSE refer_patient(admit_patient(h, patient, chosen_department), patient)
    ELSE misdiagnose(h, patient)

FailureResult ==
    [op |-> "submit_diagnosis", success |-> FALSE,
     message |-> "Invalid hospital or patient"]

\* the result dictionary of the branch taken (message: the values formatted
\* into its text; game_logic.py never appends the time-bonus note)
DiagnosisResult(h, patient, chosen_department, time_bonus) ==
    IF chosen_department = patient.correct_dept
    THEN IF CanAdmit(h, chosen_department)
         THEN [op |-> "submit_diagnosis", success |-> TRUE, correct |-> TRUE,
               admitted |-> TRUE, points |-> patient.points + time_bonus,
               message |-> [kind |-> "admitted", department |-> chosen_department,
                            points |-> patient.points, bonus_note |-> FALSE]]
         ELSE [op |-> "submit_diagnosis", success |-> TRUE, correct |-> TRUE,
               admitted |-> FALSE, points |-> -1,
               message |-> [kind |-> "referred", department |-> chosen_department,
                            points |-> 1, bonus_note |-> FALSE]]
    ELSE [op |-> "submit_diagnosis", success |-> TRUE, correct |-> FALSE,
          admitted |-> FALSE, points |-> -(patient.points \div 2),
          message |-> [kind |-> "wrong", department |-> patient.correct_dept,
                       points |-> patient.points \div 2, bonus_note |-> FALSE]]

\* the log line of the branch taken
DiagnosisLog(h, hospital_name, patient, chosen_department) ==
    IF chosen_department = patient.correct_dept
    THEN IF CanAdmit(h, chosen_department)
         THEN CorrectLog(hospital_name, patient, chosen_department)
         ELSE ReferredLog(hospital_name)
    ELSE WrongLog(hospital_name, patient, chosen_department)

\* (variant: the engine stops counting at the round cap of the app)
NextRoundCapped(round) == IF round < MAX_ROUNDS THEN round + 1 ELSE round

\* self.current_round += 1
NextRound(round) == round + 1

\* ranked = sorted(self.hospitals, key=lambda x: x.score, reverse=True), as the
\* positions of the hospitals: a stable sort, so a hospital goes behind every
\* earlier one whose score is at least its own
InsertRankedUnstable(order, hs, k) ==
    LET p == Cardinality({j \in 1..Len(order) : hs[order[j]].score > hs[k].score})
    IN SubSeq(order, 1, p) \o <<k>> \o SubSeq(order, p + 1, Len(order))

InsertRanked(order, hs, k) ==
    LET p == Cardinality({j \in 1..Len(order) : hs[order[j]].score >= hs[k].score})
    IN SubSeq(order, 1, p) \o <<k>> \o SubSeq(order, p + 1, Len(order))

RECURSIVE RankOrder(_, _)
RankOrder(hs, n) ==
    IF n = 0 THEN <<>> ELSE InsertRanked(RankOrder(hs, n - 1), hs, n)

RankingEntry(i, h) ==
    [rank |-> i,
     name |-> h.name,
     score |-> h.score,
     admitted |-> Len(h.admitted_patients),
     referred |-> h.referred_count,
     diagnosis_accuracy |-> Accuracy(h)]

get_rankings ==
    LET ranked == RankOrder(hospitals, Len(hospitals))
    IN [i \in 1..Len(hospitals) |-> RankingEntry(i, hospitals[ranked[i]])]

get_game_state ==
    [round |-> current_round,
     active_hospitals |-> [i \in 1..Len(hospitals) |-> hospitals[i].name],
     game_active |-> game_active,
     remaining_patients |-> Cardinality(DOMAIN current_patients),
     rankings |-> get_rankings]

\* (variant: the patient stays in flight)
ClearPatientKept(cp, hospital_name) == cp

\* (variant: the whole in-flight map is cleared)
ClearPatientOfAll(cp, hospital_name) == EmptyDict

\* self.current_patients.pop(hospital_name, None)
ClearPatient(cp, hospital_name) == DictPop(cp, hospital_name)

----------------------------------------------------------------------------
(* Operations *)

\* (variant: the in-flight map and the timers of the game before are kept)
initialize_gameKeepsPatients(team_names) ==
    /\ hospitals' = [i \in 1..Len(team_names) |-> Hospital(team_names[i])]
    /\ current_round' = 0
    /\ game_active' = TRUE
    /\ game_log' = add_to_log(<<>>, GameStartedLog(team_names))
    /\ outcome' = [op |-> "initialize_game", pending_before |-> DOMAIN current_patients]
    /\ resolved' = [i \in 1..Len(team_names) |-> 0]
    /\ submitted' = {}
    /\ UNCHANGED <<current_patients, diagnosis_timers>>

\* outcome remembers which hospitals had a patient in flight when the call came
initialize_game(team_names) ==
    /\ hospitals' = [i \in 1..Len(team_names) |-> Hospital(team_names[i])]
    /\ current_round' = 0
    /\ game_active' = TRUE
    /\ current_patients' = EmptyDict
    /\ diagnosis_timers' = EmptyDict
    /\ game_log' = add_to_log(<<>>, GameStartedLog(team_names))
    /\ outcome' = [op |-> "initialize_game", pending_before |-> DOMAIN current_patients]
    /\ resolved' = [i \in 1..Len(team_names) |-> 0]
    /\ submitted' = {}

\* draws[i]: the case random.choice picks for the i-th hospital; now: time.time()
start_new_round(draws, now) ==
    /\ current_round' = NextRound(current_round)
    /\ current_patients' =
          IssuePatients(current_patients, hospitals, draws, NextRound(current_round),
                        Len(hospitals))
    /\ diagnosis_timers' = IssueTimers(diagnosis_timers, hospitals, now, Len(hospitals))
    /\ game_log' = add_to_log(game_log, RoundStartedLog(NextRound(current_round)))
    /\ outcome' = [op |-> "start_new_round"]
    /\ submitted' = {}
    /\ UNCHANGED <<hospitals, game_active, resolved>>

\* (variant: the rejected call is written to the log)
submit_failureLogged ==
    /\ outcome' = FailureResult
    /\ game_log' = add_to_log(game_log, LogEntry("Invalid", "", 0, "", "", <<>>))
    /\ UNCHANGED <<hospitals, current_round, game_active, current_patients,
                   diagnosis_timers, resolved, submitted>>

\* return {'success': False, 'message': 'Invalid hospital or patient'}
submit_failure ==
    /\ outcome' = FailureResult
    /\ UNCHANGED <<engine, resolved, submitted>>

submit_diagnosis(hospital_name, chosen_department, diagnosis_time) ==
    LET i == FindHospital(hospitals, hospital_name)
    IN IF i = 0 \/ hospital_name \notin DOMAIN current_patients
       THEN submit_failure
       ELSE LET patient == current_patients[hospital_name]
                time_bonus == TimeBonus(diagnosis_time, diagnosis_timers[hospital_name])
                h == hospitals[i]
            IN /\ hospitals' =
                     [hospitals EXCEPT
                        ![i] = Diagnose(h, patient, chosen_department, time_bonus)]
               /\ outcome' = DiagnosisResult(h, patient, chosen_department, time_bonus)
               /\ game_log' =
                     add_to_log(game_log,
                                DiagnosisLog(h, hospital_name, patient, chosen_department))
               /\ current_patients' = ClearPatient(current_patients, hospital_name)
               /\ resolved' = [resolved EXCEPT ![i] = @ + 1]
               /\ submitted' = submitted \cup {hospital_name}
               /\ UNCHANGED <<current_round, game_active, diagnosis_timers>>

----------------------------------------------------------------------------
(* The Hospital and the GameEngine of app.py, which repeats the classes of  *)
(* game_logic.py in its own text. Its engine is a record of the six fields  *)
(* of GameEngine, its operations are functions of that record.              *)

app_Hospital(name) ==
    [name |-> name,
     score |-> 0,
     departments |-> [d \in DOMAIN DEPARTMENTS |->
                        [total_beds |-> DEPARTMENTS[d],
                         occupied_beds |-> 0,
                         available_beds |-> DEPARTMENTS[d],
                         patients |-> <<>>]],
     admitted_patients |-> <<>>,
     referred_count |-> 0,
     diagnosis_correct |-> 0,
     diagnosis_wrong |-> 0]

\* the value app.py's admit_patient returns
app_CanAdmit(h, department) == h.departments[department].available_beds > 0

app_admit_patient(h, patient, department) ==
    IF app_CanAdmit(h, department)
    THEN LET patient_record == [complaint |-> patient.complaint,
                                department |-> department,
                                points |-> patient.points,
                                status |-> "Admitted"]
         IN [h EXCEPT
               !.departments[department].occupied_beds = @ + 1,
               !.departments[department].available_beds = @ - 1,
               !.departments[department].patients = Append(@, patient_record),
               !.admitted_patients = Append(@, patient_record),
               !.score = @ + patient.points,
               !.diagnosis_correct = @ + 1]
    ELSE h

app_refer_patient(h, patient) ==
    [h EXCEPT !.referred_count = @ + 1, !.score = @ - 1]

\* (variant: the whole point value is lost)
app_misdiagnoseFullPoints(h, patient) ==
    [h EXCEPT !.diagnosis_wrong = @ + 1, !.score = @ - patient.points]

app_misdiagnose(h, patient) ==
    [h EXCEPT !.diagnosis_wrong = @ + 1, !.score = @ - (patient.points \div 2)]

\* total_cases = max(1, ...); (diagnosis_correct / total_cases) * 100 if
\* total_cases > 0 else 0, as the exact fraction <<numerator, denominator>>
app_Accuracy(h) ==
    LET total_cases == Max(1, h.diagnosis_correct + h.diagnosis_wrong)
    IN IF total_cases > 0 THEN <<h.diagnosis_correct * 100, total_cases>> ELSE <<0, 1>>

app_get_stats(h) ==
    LET total_beds == SumOver([d \in DOMAIN h.departments |->
                                 h.departments[d].total_beds], DOMAIN h.departments)
        occupied_beds == SumOver([d \in DOMAIN h.departments |->
                                    h.departments[d].occupied_beds], DOMAIN h.departments)
    IN [name |-> h.name,
        score |-> h.score,
        admitted |-> Len(h.admitted_patients),
        referred |-> h.referred_count,
        diagnosis_accuracy |-> app_Accuracy(h),
        bed_occupancy_rate |->
            IF total_beds > 0 THEN <<occupied_beds * 100, total_beds>> ELSE <<0, 1>>]

\* the log of app.py's engine after add_to_log(message)
app_add_to_log(e, message) ==
    LET appended == Append(e.game_log, message)
    IN [e EXCEPT !.game_log =
           IF Len(appended) > 50
           THEN SubSeq(appended, Len(appended) - 49, Len(appended))
           ELSE appended]

\* GameEngine() of app.py
app_GameEngine ==
    [hospitals |-> <<>>, current_round |-> 0, game_active |-> FALSE,
     current_patients |-> EmptyDict, diagnosis_timers |-> EmptyDict,
     game_log |-> <<>>]

app_initialize_game(e, team_names) ==
    app_add_to_log(
        [hospitals |-> [i \in 1..Len(team_names) |-> app_Hospital(team_names[i])],
         current_round |-> 0,
         game_active |-> TRUE,
         current_patients |-> EmptyDict,
         diagnosis_timers |-> EmptyDict,
         game_log |-> <<>>],
        GameStartedLog(team_names))

\* the loop of app.py's start_new_round over the hospitals 1..n
RECURSIVE app_IssueRound(_, _, _, _)
app_IssueRound(e, draws, now, n) ==
    IF n = 0 THEN e
    ELSE LET before == app_IssueRound(e, draws, now, n - 1)
             hospital == before.hospitals[n]
             case == PATIENT_CASES[draws[n]]
             patient == [complaint |-> case.complaint,
                         correct_dept |-> case.correct_dept,
                         difficulty |-> case.difficulty,
                         points |-> case.points,
                         options |-> case.options,
                         id |-> <<before.current_round, IdPrefix(hospital.name)>>,
                         hospital |-> hospital.name,
                         round |-> before.current_round]
         IN [before EXCEPT
               !.current_patients = DictPut(@, hospital.name, patient),
               !.diagnosis_timers = DictPut(@, hospital.name, now)]

app_start_new_round(e, draws, now) ==
    LET counted == [e EXCEPT !.current_round = @ + 1]
        issued == app_IssueRound(counted, draws, now, Len(counted.hospitals))
    IN app_add_to_log(issued, RoundStartedLog(issued.current_round))

\* app.py: if time_bonus: result['message'] += " (+1 time bonus)"
WithBonusNote(result, time_bonus) ==
    IF time_bonus # 0 THEN [result EXCEPT !.message.bonus_note = TRUE] ELSE result

\* the hospital after the diagnosis branches of app.py's submit_diagnosis
app_Diagnose(h, patient, chosen_department, time_bonus) ==
    IF chosen_department = patient.correct_dept
    THEN IF app_CanAdmit(h, chosen_department)
         THEN [app_admit_patient(h, patient, chosen_department)
                  EXCEPT !.score = @ + time_bonus]
         ELSE app_refer_patient(h, patient)
    ELSE app_misdiagnose(h, patient)

\* the result dictionary of app.py's submit_diagnosis
AppDiagnosisResult(h, patient, chosen_department, time_bonus) ==
    IF chosen_department = patient.correct_dept
    THEN IF app_CanAdmit(h, chosen_department)
         THEN WithBonusNote(
                [op |-> "submit_diagnosis", success |-> TRUE, correct |-> TRUE,
                 admitted |-> TRUE, points |-> patient.points + time_bonus,
                 message |-> [kind |-> "admitted", department |-> chosen_department,
                              points |-> patient.points, bonus_note |-> FALSE]],
                time_bonus)
         ELSE [op |-> "submit_diagnosis", success |-> TRUE, correct |-> TRUE,
               admitted |-> FALSE, points |-> -1,
               message |-> [kind |-> "referred", department |-> chosen_department,
                            points |-> 1, bonus_note |-> FALSE]]
    ELSE [op |-> "submit_diagnosis", success |-> TRUE, correct |-> FALSE,
          admitted |-> FALSE, points |-> -(patient.points \div 2),
          message |-> [kind |-> "wrong", department |-> patient.correct_dept,
                       points |-> patient.points \div 2, bonus_note |-> FALSE]]

\* the log line app.py's submit_diagnosis writes for the branch taken
AppDiagnosisLog(h, hospital_name, patient, chosen_department) ==
    IF chosen_department = patient.correct_dept
    THEN IF app_CanAdmit(h, chosen_department)
         THEN CorrectLog(hospital_name, patient, chosen_department)
         ELSE ReferredLog(hospital_name)
    ELSE WrongLog(hospital_name, patient, chosen_department)

\* app.py's submit_diagnosis on the engine e: the engine after the call and the
\* dictionary returned
app_submit(e, hospital_name, chosen_department, diagnosis_time) ==
    LET i == FindHospital(e.hospitals, hospital_name)
    IN IF i = 0 \/ hospital_name \notin DOMAIN e.current_patients
       THEN [engine |-> e, result |-> FailureResult]
       ELSE LET hospital == e.hospitals[i]
                patient == e.current_patients[hospital_name]
                time_taken == diagnosis_time - e.diagnosis_timers[hospital_name]
                time_bonus == IF time_taken < 15 THEN 1 ELSE 0
                diagnosed ==
                    [e EXCEPT !.hospitals[i] =
                        app_Diagnose(hospital, patient, chosen_department, time_bonus)]
                logged ==
                    app_add_to_log(diagnosed,
                        AppDiagnosisLog(hospital, hospital_name, patient,
                                        chosen_department))
            IN [engine |-> [logged EXCEPT
                              !.current_patients = DictPop(@, hospital_name)],
                result |-> AppDiagnosisResult(hospital, patient, chosen_department,
                                              time_bonus)]

\* app.py's get_rankings: diagnosis_accuracy is get_stats()['diagnosis_accuracy']
app_get_rankings(e) ==
    LET ranked == RankOrder(e.hospitals, Len(e.hospitals))
    IN [i \in 1..Len(e.hospitals) |->
          LET hospital == e.hospitals[ranked[i]]
          IN [rank |-> i,
              name |-> hospital.name,
              score |-> hospital.score,
              admitted |-> Len(hospital.admitted_patients),
              referred |-> hospital.referred_count,
              diagnosis_accuracy |-> app_get_stats(hospital).diagnosis_accuracy]]

\* the engine of the state variables, as app.py's engine record
EngineRecord ==
    [hospitals |-> hospitals, current_round |-> current_round,
     game_active |-> game_active, current_patients |-> current_patients,
     diagnosis_timers |-> diagnosis_timers, game_log |-> game_log]

\* GameEngine.submit_diagnosis of app.py as a step of the engine of the state
\* variables
app_submit_diagnosis(hospital_name, chosen_department, diagnosis_time) ==
    LET called == app_submit(EngineRecord, hospital_name, chosen_department,
                             diagnosis_time)
    IN IF ~called.result.success
       THEN submit_failure
       ELSE /\ hospitals' = called.engine.hospitals
            /\ current_round' = called.engine.current_round
            /\ game_active' = called.engine.game_active
            /\ current_patients' = called.engine.current_patients
            /\ diagnosis_timers' = called.engine.diagnosis_timers
            /\ game_log' = called.engine.game_log
            /\ outcome' = called.result
            /\ resolved' =
                  [resolved EXCEPT ![FindHospital(hospitals, hospital_name)] = @ + 1]
            /\ submitted' = submitted \cup {hospital_name}

\* Hospital.discharge_patient on the i-th hospital of the engine
discharge(i, department, patient_index) ==
    /\ hospitals' =
          [hospitals EXCEPT ![i] = discharge_patient(hospitals[i], department, patient_index)]
    /\ outcome' =
          [op |-> "discharge_patient",
           found |-> CanDischarge(hospitals[i], department, patient_index),
           returned |-> Discharged(hospitals[i], department, patient_index)]
    /\ UNCHANGED <<current_round, game_active, current_patients, diagnosis_timers,
                   game_log, resolved, submitted>>

\* (variant: the query sorts self.hospitals in place, list.sort for sorted)
querySortingInPlace(name, value) ==
    /\ outcome' = [op |-> name, value |-> value]
    /\ hospitals' =
          LET ranked == RankOrder(hospitals, Len(hospitals))
          IN [i \in 1..Len(hospitals) |-> hospitals[ranked[i]]]
    /\ UNCHANGED <<current_round, game_active, current_patients, diagnosis_timers,
                   game_log, resolved, submitted>>

\* the read-only queries: the value returned, nothing else
query(name, value) ==
    /\ outcome' = [op |-> name, value |-> value]
    /\ UNCHANGED <<engine, resolved, submitted>>

----------------------------------------------------------------------------------------------------------------------------------------
(* Spec: two hospitals, one case of the table, every order of rounds and   *)
(* submissions, callers that name a hospital that is not registered.       *)

MaxRound == 3

Teams == <<"Alpha", "Beta">>
CallerNames == {"Alpha", "Beta", "Gamma"}
Draws == {1}
ChosenDepartments == {"Cardiology", "Emergency"}
RoundStartTimes == {0}
SubmitTimes == {14}

Initialize == initialize_game(Teams)

StartRound ==
    /\ current_round < MaxRound
    /\ \E draws \in [1..Len(hospitals) -> Draws], now \in RoundStartTimes :
          start_new_round(draws, now)

Submit ==
    \E hospital_name \in CallerNames, chosen_department \in ChosenDepartments,
       diagnosis_time \in SubmitTimes :
          submit_diagnosis(hospital_name, chosen_department, diagnosis_time)

Next == Initialize \/ StartRound \/ Submit

Spec == Init /\ [][Next]_vars

----------------------------------------------------------------------------
(* SpecSolo: one hospital, cases worth 3, 4 and 5 points, round timers and *)
(* submission times that put the elapsed time at 14, 15 and 16 seconds.    *)

MaxRoundSolo == 3

SoloTeams == <<"Alpha">>
SoloCallerNames == {"Alpha", "Beta"}
SoloDraws == {1, 4, 10}
SoloChosenDepartments == {"Cardiology", "ICU"}
SoloRoundStartTimes == {0, 1}
SoloSubmitTimes == {15, 16}

SoloInitialize == initialize_game(SoloTeams)

SoloStartRound ==
    /\ current_round < MaxRoundSolo
    /\ \E draws \in [1..Len(hospitals) -> SoloDraws], now \in SoloRoundStartTimes :
          start_new_round(draws, now)

SoloSubmit ==
    \E hospital_name \in SoloCallerNames, chosen_department \in SoloChosenDepartments,
       diagnosis_time \in SoloSubmitTimes :
          submit_diagnosis(hospital_name, chosen_department, diagnosis_time)

NextSolo == SoloInitialize \/ SoloStartRound \/ SoloSubmit

SpecSolo == Init /\ [][NextSolo]_vars

----------------------------------------------------------------------------
(* SpecDischarge: one hospital, two cases of one department (its patient   *)
(* records differ), with Hospital.discharge_patient                        *)
(* called on it between the engine's operations, at indexes inside and     *)
(* outside the patient lists.                                              *)

MaxRoundDischarge == 3

DischargeTeams == <<"Alpha">>
DischargeCallerNames == {"Alpha"}
DischargeDraws == {1, 9}
DischargeChosenDepartments == {"Cardiology", "ICU"}
DischargeRoundStartTimes == {0}
DischargeSubmitTimes == {14}
DischargeIndexes == {-1, 0, 1, 2}

DischargeInitialize == initialize_game(DischargeTeams)

DischargeStartRound ==
    /\ current_round < MaxRoundDischarge
    /\ \E draws \in [1..Len(hospitals) -> DischargeDraws],
          now \in DischargeRoundStartTimes :
          start_new_round(draws, now)

DischargeSubmit ==
    \E hospital_name \in DischargeCallerNames,
       chosen_department \in DischargeChosenDepartments,
       diagnosis_time \in DischargeSubmitTimes :
          submit_diagnosis(hospital_name, chosen_department, diagnosis_time)

DischargePatient ==
    \E i \in 1..Len(hospitals), department \in DischargeChosenDepartments,
       patient_index \in DischargeIndexes :
          discharge(i, department, patient_index)

NextDischarge ==
    DischargeInitialize \/ DischargeStartRound \/ DischargeSubmit \/ DischargePatient

SpecDischarge == Init /\ [][NextDischarge]_vars

----------------------------------------------------------------------------
(* SpecLong: one hospital played round after round, a new round once the   *)
(* patient of the round is resolved, far enough for the round counter to   *)
(* pass MAX_ROUNDS and for the log to pass LOG_LIMIT; with the queries.     *)

MaxRoundLong == 26

LongTeams == <<"Alpha">>
LongCallerNames == {"Alpha", "Beta"}
LongDraws == {1}
LongChosenDepartments == {"Cardiology"}
LongRoundStartTimes == {0}
LongSubmitTimes == {14, 15}

LongInitialize == initialize_game(LongTeams)

LongStartRound ==
    /\ DOMAIN current_patients = {}
    /\ current_round < MaxRoundLong
    /\ \E draws \in [1..Len(hospitals) -> LongDraws], now \in LongRoundStartTimes :
          start_new_round(draws, now)

LongSubmit ==
    \E hospital_name \in LongCallerNames, chosen_department \in LongChosenDepartments,
       diagnosis_time \in LongSubmitTimes :
          submit_diagnosis(hospital_name, chosen_department, diagnosis_time)

GetRankings == query("get_rankings", get_rankings)

GetGameState == query("get_game_state", get_game_state)

GetStats == \E i \in 1..Len(hospitals) : query("get_stats", get_stats(hospitals[i]))

NextLong ==
    LongInitialize \/ LongStartRound \/ LongSubmit \/ GetRankings \/ GetGameState
        \/ GetStats

SpecLong == Init /\ [][NextLong]_vars

----------------------------------------------------------------------------
(* SpecQuery: the two hospitals of Spec with the queries called between    *)
(* the operations, in states where the ranking is not the list order.      *)

MaxRoundQuery == 2

QueryStartRound ==
    /\ current_round < MaxRoundQuery
    /\ \E draws \in [1..Len(hospitals) -> Draws], now \in RoundStartTimes :
          start_new_round(draws, now)

NextQuery ==
    Initialize \/ QueryStartRound \/ Submit \/ GetRankings \/ GetGameState \/ GetStats

SpecQuery == Init /\ [][NextQuery]_vars

----------------------------------------------------------------------------
(* SpecDuplicate: initialize_game given the same name twice, with another  *)
(* hospital between the two; the rounds and callers of Spec.               *)

MaxRoundDuplicate == 3

DuplicateTeams == <<"Alpha", "Beta", "Alpha">>

DuplicateInitialize == initialize_game(DuplicateTeams)

DuplicateStartRound ==
    /\ current_round < MaxRoundDuplicate
    /\ \E draws \in [1..Len(hospitals) -> Draws], now \in RoundStartTimes :
          start_new_round(draws, now)

NextDuplicate == DuplicateInitialize \/ DuplicateStartRound \/ Submit

SpecDuplicate == Init /\ [][NextDuplicate]_vars

----------------------------------------------------------------------------
(* SpecSideBySide: the two hospitals of Spec, answering within the time    *)
(* limit or at it, so that the time bonus is earned in some calls and      *)
(* missed in others. A call that is rejected does not read its department  *)
(* or its time, so one such call per name is made.                         *)

MaxRoundSideBySide == 3

SideBySideSubmitTimes == {14, 15}

SideBySideInitialize == initialize_game(Teams)

SideBySideStartRound ==
    /\ current_round < MaxRoundSideBySide
    /\ \E draws \in [1..Len(hospitals) -> Draws], now \in RoundStartTimes :
          start_new_round(draws, now)

SideBySideCall(hospital_name, chosen_department, diagnosis_time) ==
    /\ \/ hospital_name \in DOMAIN current_patients
       \/ /\ chosen_department = "Cardiology"
          /\ diagnosis_time = 14
    /\ submit_diagnosis(hospital_name, chosen_department, diagnosis_time)

SideBySideSubmit ==
    \E hospital_name \in CallerNames, chosen_department \in ChosenDepartments,
       diagnosis_time \in SideBySideSubmitTimes :
          SideBySideCall(hospital_name, chosen_department, diagnosis_time)

NextSideBySide == SideBySideInitialize \/ SideBySideStartRound \/ SideBySideSubmit

SpecSideBySide == Init /\ [][NextSideBySide]_vars

----------------------------------------------------------------------------
(* SpecFill: one hospital that always names the right department, played   *)
(* until all its beds are taken and beyond. Each round draws either a case *)
(* for the first department of the table with a free bed or the Cardiology *)
(* case; a new round starts once the patient is resolved.                  *)

MaxRoundFill == 17

FillTeams == <<"Alpha">>
FillSubmitTimes == {14}
FillRoundStartTimes == {0}

\* one case of the table for each department, in the order of DEPARTMENTS
FillOrder == <<6, 5, 2, 1, 4, 3>>

FillDraws(h) ==
    {1} \cup
    {FillOrder[k] : k \in
        {k \in 1..Len(FillOrder) :
            /\ CanAdmit(h, PATIENT_CASES[FillOrder[k]].correct_dept)
            /\ \A j \in 1..(k - 1) :
                  ~CanAdmit(h, PATIENT_CASES[FillOrder[j]].correct_dept)}}

FillInitialize == initialize_game(FillTeams)

FillStartRound ==
    /\ Len(hospitals) = 1
    /\ DOMAIN current_patients = {}
    /\ current_round < MaxRoundFill
    /\ \E c \in FillDraws(hospitals[1]), now \in FillRoundStartTimes :
          start_new_round([i \in 1..1 |-> c], now)

FillSubmit ==
    \E hospital_name \in DOMAIN current_patients, diagnosis_time \in FillSubmitTimes :
       submit_diagnosis(hospital_name, current_patients[hospital_name].correct_dept,
                        diagnosis_time)

NextFill == FillInitialize \/ FillStartRound \/ FillSubmit

SpecFill == Init /\ [][NextFill]_vars

----------------------------------------------------------------------------
(* The buttons of app.py on its engine. game_initialized of the session    *)
(* state is TRUE exactly when game_active is: both are set by Start Game   *)
(* and both go with the session state on Reset Game.                       *)

\* len(set(team_names)) != len(team_names) is false
UniqueNames(team_names) ==
    \A i, j \in 1..Len(team_names) : team_names[i] = team_names[j] => i = j

\* (variant: the button still starts a round at the last round)
RoundsLeftInclusive(round) == round <= MAX_ROUNDS

\* (variant: the button stops one round early)
RoundsLeftButOne(round) == round < MAX_ROUNDS - 1

\* if game.current_round < MAX_ROUNDS
RoundsLeft(round) == round < MAX_ROUNDS

\* Start Game: initialize_game(team_names) and start_new_round() in one handler
StartGame(team_names, draws, now) ==
    /\ ~game_active
    /\ IF UniqueNames(team_names)
       THEN LET hs == [i \in 1..Len(team_names) |-> Hospital(team_names[i])]
            IN /\ hospitals' = hs
               /\ current_round' = NextRound(0)
               /\ game_active' = TRUE
               /\ current_patients' =
                     IssuePatients(EmptyDict, hs, draws, NextRound(0), Len(hs))
               /\ diagnosis_timers' = IssueTimers(EmptyDict, hs, now, Len(hs))
               /\ game_log' =
                     add_to_log(add_to_log(<<>>, GameStartedLog(team_names)),
                                RoundStartedLog(NextRound(0)))
               /\ outcome' = [op |-> "start_new_round"]
               /\ resolved' = [i \in 1..Len(team_names) |-> 0]
               /\ submitted' = {}
       ELSE /\ outcome' = [op |-> "Start Game", error |-> "Team names must be unique!"]
            /\ UNCHANGED <<engine, resolved, submitted>>

\* New Round: a round below MAX_ROUNDS, a warning at it
NewRound(draws, now) ==
    /\ game_active
    /\ IF RoundsLeft(current_round)
       THEN start_new_round(draws, now)
       ELSE /\ outcome' = [op |-> "New Round", warning |-> "Maximum rounds reached!"]
            /\ UNCHANGED <<engine, resolved, submitted>>

\* Submit Diagnosis: shown for a hospital with a patient, the department one of
\* the patient's options, the time the clock's
SubmitDiagnosis(hospital_name, selected, now) ==
    /\ game_active
    /\ Len(hospitals) > 0
    /\ FindHospital(hospitals, hospital_name) # 0
    /\ hospital_name \in DOMAIN current_patients
    /\ \E k \in DOMAIN current_patients[hospital_name].options :
          current_patients[hospital_name].options[k] = selected
    /\ now >= diagnosis_timers[hospital_name]
    /\ app_submit_diagnosis(hospital_name, selected, now)

\* Reset Game: the session state is deleted, the next run builds GameEngine()
ResetGame ==
    /\ game_active
    /\ hospitals' = <<>>
    /\ current_round' = 0
    /\ game_active' = FALSE
    /\ current_patients' = EmptyDict
    /\ diagnosis_timers' = EmptyDict
    /\ game_log' = <<>>
    /\ outcome' = [op |-> "__init__"]
    /\ resolved' = <<>>
    /\ submitted' = {}

\* if game.current_round >= MAX_ROUNDS and not game.current_patients
GameOver == current_round >= MAX_ROUNDS /\ DOMAIN current_patients = {}

----------------------------------------------------------------------------
(* SpecApp: a session of app.py with two teams, played to MAX_ROUNDS and   *)
(* reset at any time. In the last FreeRounds rounds the buttons are        *)
(* pressed in any order, New Round also while patients are pending; in the *)
(* rounds before, the hospitals answer in list order and New Round follows *)
(* the last answer. SpecAppFair adds that a hospital with a patient on its *)
(* card submits and that New Round is pressed.                             *)

FreeRounds == 5

AppTeamLists == {<<"Alpha", "Beta">>, <<"Alpha", "Alpha">>}
AppCallerNames == {"Alpha", "Beta"}
AppDraws == {1}
AppChosenDepartments == {"Cardiology"}
AppRoundStartTimes == {0}
AppSubmitTimes == {14}

\* the round is one of the last FreeRounds rounds
FreePlay == current_round > MAX_ROUNDS - FreeRounds

\* no hospital before this one in the list still has a patient
FirstPending(hospital_name) ==
    \A j \in 1..Len(hospitals) :
        j < FindHospital(hospitals, hospital_name)
           => hospitals[j].name \notin DOMAIN current_patients

AppStartGame ==
    \E team_names \in AppTeamLists :
       \E draws \in [1..Len(team_names) -> AppDraws], now \in AppRoundStartTimes :
          StartGame(team_names, draws, now)

AppNewRound ==
    /\ FreePlay \/ DOMAIN current_patients = {}
    /\ \E draws \in [1..Len(hospitals) -> AppDraws], now \in AppRoundStartTimes :
          NewRound(draws, now)

AppSubmitDiagnosis(hospital_name) ==
    /\ FreePlay \/ FirstPending(hospital_name)
    /\ \E selected \in AppChosenDepartments, now \in AppSubmitTimes :
       SubmitDiagnosis(hospital_name, selected, now)

AppSubmit == \E hospital_name \in AppCallerNames : AppSubmitDiagnosis(hospital_name)

NextApp == AppStartGame \/ AppNewRound \/ AppSubmit \/ ResetGame

SpecApp == Init /\ [][NextApp]_vars

SpecAppFair ==
    /\ SpecApp
    /\ WF_vars(AppNewRound)
    /\ \A hospital_name \in AppCallerNames : WF_vars(AppSubmitDiagnosis(hospital_name))

----------------------------------------------------------------------------
(* Vocabulary of the properties *)

Registered(name) == \E i \in 1..Len(hospitals) : hospitals[i].name = name

\* a step is a submit_diagnosis call that returned success=True
ResolvedStep == outcome'.op = "submit_diagnosis" /\ outcome'.success

\* a step is a submit_diagnosis call that returned success=False
FailedStep == outcome'.op = "submit_diagnosis" /\ ~outcome'.success

\* the last call returned an outcome with success=True
Resolved == outcome.op = "submit_diagnosis" /\ outcome.success

Referred == Resolved /\ outcome.correct /\ ~outcome.admitted

OccupiedBeds(h) ==
    SumOver([d \in DeptNames |-> h.departments[d].occupied_beds], DeptNames)

\* points // 2 of the three point values of the case table, as the spec lists them
HalfPoints(p) == CASE p = 3 -> 1 [] p = 4 -> 2 [] p = 5 -> 2

----------------------------------------------------------------------------
(* Properties *)

\* C1: in every reachable state, for every hospital and department,
\* 0 <= occupied_beds <= total_beds and available_beds = total_beds - occupied_beds
\* (rounds, diagnoses and discharges in any order).
BedCountsConsistent ==
    \A i \in 1..Len(hospitals), d \in DeptNames :
        LET dept == hospitals[i].departments[d]
        IN /\ 0 <= dept.occupied_beds
           /\ dept.occupied_beds <= dept.total_beds
           /\ dept.available_beds = dept.total_beds - dept.occupied_beds

\* a bed freed by a discharge was taken again and its department is full
DischargedBedRefilled ==
    \E i \in 1..Len(hospitals), d \in DeptNames :
        /\ hospitals[i].departments[d].occupied_beds =
              hospitals[i].departments[d].total_beds
        /\ hospitals[i].departments[d].available_beds = 0
        /\ Len(hospitals[i].admitted_patients) > OccupiedBeds(hospitals[i])

\* C2: for every hospital, diagnosis_correct + diagnosis_wrong equals the number of
\* its submit_diagnosis calls that returned success=True (admitted, referred and
\* misdiagnosed alike).
DiagnosesCountResolvedCalls ==
    \A i \in 1..Len(hospitals) :
        hospitals[i].diagnosis_correct + hospitals[i].diagnosis_wrong = resolved[i]

\* C3: a resolved submit_diagnosis removes the hospital's in-flight patient in
\* every branch, and a further submit_diagnosis for that hospital before the next
\* start_new_round returns success=False.
ResolvedPatientCleared ==
    [][/\ submitted' \cap DOMAIN current_patients' = {}
       /\ \A h \in submitted, d \in ChosenDepartments, t \in SubmitTimes :
             submit_diagnosis(h, d, t) => outcome' = FailureResult]_vars

\* a referred hospital is out of the in-flight map while another is still pending
ReferredHospitalCleared ==
    /\ Referred
    /\ submitted # {}
    /\ DOMAIN current_patients # {}

\* C4: submit_diagnosis for a name that is not registered, or for a hospital with
\* no in-flight patient, returns success=False and changes nothing of the engine:
\* hospitals, in-flight map, timers, round counter, log.
FailedLookupChangesNothing ==
    [][/\ FailedStep => UNCHANGED engine
       /\ \A h \in CallerNames, d \in ChosenDepartments, t \in SubmitTimes :
             ((~Registered(h) \/ h \notin DOMAIN current_patients)
                 /\ submit_diagnosis(h, d, t))
             => (FailedStep /\ UNCHANGED engine)]_vars

\* a call was rejected in the middle of a round, after one hospital had submitted
RejectedMidRound ==
    /\ outcome.op = "submit_diagnosis" /\ ~outcome.success
    /\ submitted # {}
    /\ DOMAIN current_patients # {}
    /\ Len(game_log) > 2

\* C5: a resolved submit_diagnosis on a patient worth p changes the hospital's
\* score by exactly p plus the time bonus (correct, bed free), -1 (correct, no
\* bed), or -(p // 2) (wrong: 5 -> -2, 4 -> -2, 3 -> -1).
ScoreChangesByRule ==
    [][\A h \in SoloCallerNames, d \in SoloChosenDepartments, t \in SoloSubmitTimes :
         (submit_diagnosis(h, d, t) /\ ResolvedStep) =>
            LET i       == CHOOSE k \in 1..Len(hospitals) : hospitals[k].name = h
                patient == current_patients[h]
                dept    == hospitals[i].departments[d]
                bonus   == IF t - diagnosis_timers[h] < 15 THEN 1 ELSE 0
            IN hospitals'[i].score - hospitals[i].score =
                 IF d = patient.correct_dept
                 THEN IF dept.occupied_beds < dept.total_beds
                      THEN patient.points + bonus
                      ELSE -1
                 ELSE -HalfPoints(patient.points)]_vars

\* the 3-point case was misdiagnosed as a hospital's first diagnosis: score -1
ThreePointCaseMisdiagnosed ==
    /\ Resolved /\ ~outcome.correct
    /\ outcome.message.points = 1
    /\ \E i \in 1..Len(hospitals) :
          hospitals[i].score = -1 /\ hospitals[i].diagnosis_wrong = 1

\* C6: the outcome record of a resolved submit_diagnosis tells what happened:
\* correct iff the chosen department is the patient's correct department, admitted
\* iff this call took a bed, points = the change of the hospital's score.
OutcomeTellsWhatHappened ==
    [][\A h \in SoloCallerNames, d \in SoloChosenDepartments, t \in SoloSubmitTimes :
         (submit_diagnosis(h, d, t) /\ ResolvedStep) =>
            LET i == CHOOSE k \in 1..Len(hospitals) : hospitals[k].name = h
            IN /\ outcome'.correct <=> (d = current_patients[h].correct_dept)
               /\ outcome'.admitted <=>
                     (OccupiedBeds(hospitals'[i]) = OccupiedBeds(hospitals[i]) + 1)
               /\ ~outcome'.admitted =>
                     (OccupiedBeds(hospitals'[i]) = OccupiedBeds(hospitals[i]))
               /\ outcome'.points = hospitals'[i].score - hospitals[i].score]_vars

\* the 5-point case was admitted with the time bonus: 6 points reported and scored
AdmittedWithBonusReported ==
    /\ Resolved /\ outcome.admitted
    /\ outcome.points = 6
    /\ \E i \in 1..Len(hospitals) :
          hospitals[i].score = 6 /\ OccupiedBeds(hospitals[i]) = 1

\* C7: the time bonus is 1 exactly when diagnosis_time minus the hospital's timer
\* is < 15 (exactly 15 earns none); it reaches the score only in the admitted
\* branch; a submission with elapsed >= 15 is still accepted and scored.
BonusStrictlyUnderLimit ==
    [][\A h \in SoloCallerNames, d \in SoloChosenDepartments, t \in SoloSubmitTimes :
         LET elapsed == t - diagnosis_timers[h]
             i       == CHOOSE k \in 1..Len(hospitals) : hospitals[k].name = h
             p       == current_patients[h].points
             delta   == hospitals'[i].score - hospitals[i].score
         IN /\ (submit_diagnosis(h, d, t) /\ Registered(h)
                   /\ h \in DOMAIN current_patients) => ResolvedStep
            /\ (submit_diagnosis(h, d, t) /\ ResolvedStep) =>
                  /\ outcome'.admitted =>
                        /\ elapsed < 15 => delta = p + 1
                        /\ elapsed >= 15 => delta = p
                  /\ ~outcome'.admitted => delta \in {-1, -(p \div 2)}]_vars

\* a patient issued at time 1 was admitted without bonus: the submission came at
\* 16, an elapsed time of exactly 15
AdmittedAtTheLimitWithoutBonus ==
    /\ Resolved /\ outcome.admitted
    /\ outcome.points = outcome.message.points
    /\ \A h \in DOMAIN diagnosis_timers : diagnosis_timers[h] = 1

\* C8: get_rankings returns one entry per hospital, by score descending, equal
\* scores in the order of initialize_game's list, ranks 1..N by position.
RankingsSortedAndStable ==
    LET r == get_rankings
        n == Len(hospitals)
        position(name) == CHOOSE k \in 1..n : hospitals[k].name = name
    IN /\ DOMAIN r = 1..n
       /\ \A i \in 1..n : r[i].rank = i
       /\ \A k \in 1..n :
             Cardinality({i \in 1..n : r[i].name = hospitals[k].name
                                        /\ r[i].score = hospitals[k].score}) = 1
       /\ \A i, j \in 1..n :
             i < j => /\ r[i].score >= r[j].score
                      /\ r[i].score = r[j].score =>
                            position(r[i].name) < position(r[j].name)

\* a diagnosis has just tied the two hospitals at a score other than 0
TiedAfterScoring ==
    /\ Resolved
    /\ Len(hospitals) = 2
    /\ hospitals[1].score = hospitals[2].score
    /\ hospitals[1].score # 0

\* C9: the log never holds more than 50 entries; an add_to_log on a log of 50
\* entries drops exactly the oldest one and keeps the other 49 and the new entry
\* in order; the new entry is never rejected.
LogKeepsLastFifty ==
    [][/\ Len(game_log') <= 50
       /\ outcome'.op = "start_new_round" =>
             game_log'[Len(game_log')] = RoundStartedLog(current_round')
       /\ (outcome'.op = "submit_diagnosis" /\ outcome'.success) =>
             /\ game_log'[Len(game_log')].kind \in
                   {"Correct diagnosis", "Correct diagnosis but no beds",
                    "Wrong diagnosis"}
             /\ Len(game_log) < 50 => Len(game_log') = Len(game_log) + 1
       /\ (Len(game_log) = 50 /\ game_log' # game_log
              /\ outcome'.op # "initialize_game") =>
             /\ Len(game_log') = 50
             /\ SubSeq(game_log', 1, 49) = SubSeq(game_log, 2, 50)]_vars

\* the log is full and its oldest entries, the game start among them, are gone
OldestEntryEvicted ==
    /\ Len(game_log) = 50
    /\ game_log[1].kind # "Game started"
    /\ game_log[50].round = current_round

\* C10: the round counter is 0 after initialize_game, grows by exactly 1 with every
\* start_new_round (also at and beyond the 15 rounds of the app) and is left alone
\* by submit_diagnosis and by the queries.
RoundCounterStepsByOne ==
    [][/\ outcome'.op = "initialize_game" => current_round' = 0
       /\ outcome'.op = "start_new_round" => current_round' = current_round + 1
       /\ outcome'.op \in {"submit_diagnosis", "get_rankings", "get_game_state",
                            "get_stats"} => current_round' = current_round]_vars

\* a round was started beyond the 15th
RoundStartedPastTheCap ==
    /\ outcome.op = "start_new_round"
    /\ current_round > MAX_ROUNDS

\* C11: with unique team names, each hospital has at most one in-flight patient,
\* and every key of the in-flight map is the name of a registered hospital whose
\* in-flight record carries that same hospital name.
InFlightKeyedByOwnHospital ==
    /\ \A name \in DOMAIN current_patients :
          /\ Registered(name)
          /\ current_patients[name].hospital = name
    /\ \A i \in 1..Len(hospitals) :
          Cardinality({name \in DOMAIN current_patients :
                         current_patients[name].hospital = hospitals[i].name}) <= 1

\* a round was superseded before anyone submitted: both hospitals still hold one
\* patient each, the one of the second round
RoundSupersededUnanswered ==
    /\ outcome.op = "start_new_round"
    /\ current_round = 2
    /\ DOMAIN current_patients = {"Alpha", "Beta"}
    /\ \A i \in 1..Len(hospitals) : resolved[i] = 0
    /\ \A name \in DOMAIN current_patients : current_patients[name].round = 2

\* C12: initialize_game, called in any state (also in the middle of a game), leaves
\* one fresh hospital per given name in argument order (score 0, all counters 0,
\* every department with 0 occupied beds), round counter 0, an empty in-flight
\* map, an empty timer map, and a log of exactly one entry.
InitializeGameStartsAfresh ==
    [][outcome'.op = "initialize_game" =>
         /\ DOMAIN hospitals' = 1..Len(Teams)
         /\ \A i \in 1..Len(Teams) :
               LET h == hospitals'[i]
               IN /\ h.name = Teams[i]
                  /\ h.score = 0
                  /\ h.referred_count = 0
                  /\ h.diagnosis_correct = 0
                  /\ h.diagnosis_wrong = 0
                  /\ h.admitted_patients = <<>>
                  /\ \A d \in DeptNames :
                        /\ h.departments[d].occupied_beds = 0
                        /\ h.departments[d].available_beds = h.departments[d].total_beds
                        /\ h.departments[d].patients = <<>>
         /\ current_round' = 0
         /\ DOMAIN current_patients' = {}
         /\ DOMAIN diagnosis_timers' = {}
         /\ Len(game_log') = 1
         /\ game_log'[1] = GameStartedLog(Teams)]_vars

\* the game was initialized again while one hospital of a round was still pending
InitializedAgainMidRound ==
    /\ outcome.op = "initialize_game"
    /\ outcome.pending_before = {"Beta"}
    /\ Len(hospitals) = 2
    /\ Len(game_log) = 1

\* a record is a copy of a case of the table, with id, hospital and round added
FromCaseTable(patient) ==
    \E c \in DOMAIN PATIENT_CASES :
        /\ patient.complaint = PATIENT_CASES[c].complaint
        /\ patient.correct_dept = PATIENT_CASES[c].correct_dept
        /\ patient.difficulty = PATIENT_CASES[c].difficulty
        /\ patient.points = PATIENT_CASES[c].points
        /\ patient.options = PATIENT_CASES[c].options

\* C13: (team names unique, as initialize_game requires of its caller) immediately
\* after every start_new_round every registered hospital has an in-flight patient
\* drawn from the case table and a timer entry, so the number of pending hospitals
\* equals the number of hospitals; the call appends exactly one log entry and
\* changes no hospital's score, counters or beds.
RoundStartIssuesToEveryHospital ==
    [][outcome'.op = "start_new_round" =>
         /\ \A i \in 1..Len(hospitals) :
               /\ hospitals[i].name \in DOMAIN current_patients'
               /\ hospitals[i].name \in DOMAIN diagnosis_timers'
               /\ FromCaseTable(current_patients'[hospitals[i].name])
               /\ current_patients'[hospitals[i].name].round = current_round'
         /\ Cardinality(DOMAIN current_patients') = Len(hospitals)
         /\ get_game_state'.remaining_patients = Len(hospitals)
         /\ game_log'[Len(game_log')].kind = "Round started"
         /\ IF Len(game_log) < 50
            THEN /\ Len(game_log') = Len(game_log) + 1
                 /\ SubSeq(game_log', 1, Len(game_log)) = game_log
            ELSE /\ Len(game_log') = 50
                 /\ SubSeq(game_log', 1, 49) = SubSeq(game_log, 2, 50)
         /\ hospitals' = hospitals]_vars

\* the second round has just started after only Alpha answered the first: both
\* hospitals are pending again and Alpha's score is what the first round left
SecondRoundIssuedToBoth ==
    /\ outcome.op = "start_new_round"
    /\ current_round = 2
    /\ Cardinality(DOMAIN current_patients) = 2
    /\ resolved = <<1, 0>>
    /\ hospitals[1].score # 0
    /\ Len(game_log) = 4

\* C14: between two initialize_game calls each hospital's referred_count,
\* diagnosis_correct and diagnosis_wrong start at 0 and never decrease under any
\* engine operation; each resolved submit_diagnosis increases exactly one of the
\* three, by exactly 1.
CountersOnlyGrow ==
    [][/\ outcome'.op = "initialize_game" =>
             \A i \in 1..Len(hospitals') :
                 /\ hospitals'[i].referred_count = 0
                 /\ hospitals'[i].diagnosis_correct = 0
                 /\ hospitals'[i].diagnosis_wrong = 0
       /\ outcome'.op # "initialize_game" =>
             /\ Len(hospitals') = Len(hospitals)
             /\ \A i \in 1..Len(hospitals) :
                   /\ hospitals'[i].referred_count >= hospitals[i].referred_count
                   /\ hospitals'[i].diagnosis_correct >= hospitals[i].diagnosis_correct
                   /\ hospitals'[i].diagnosis_wrong >= hospitals[i].diagnosis_wrong
       /\ ResolvedStep =>
             \E i \in 1..Len(hospitals) :
                 LET referred == hospitals'[i].referred_count - hospitals[i].referred_count
                     correct  == hospitals'[i].diagnosis_correct
                                    - hospitals[i].diagnosis_correct
                     wrong    == hospitals'[i].diagnosis_wrong - hospitals[i].diagnosis_wrong
                 IN /\ resolved'[i] = resolved[i] + 1
                    /\ <<referred, correct, wrong>> \in
                          {<<1, 0, 0>>, <<0, 1, 0>>, <<0, 0, 1>>}
                    /\ outcome'.message.kind =
                          CASE referred = 1 -> "referred"
                            [] correct = 1  -> "admitted"
                            [] wrong = 1    -> "wrong"]_vars

\* one hospital was referred after two admissions while the other has a wrong
\* diagnosis behind it: all three counters have moved
ReferredAfterTwoAdmissions ==
    /\ Referred
    /\ \E i, j \in 1..Len(hospitals) :
          /\ hospitals[i].referred_count = 1
          /\ hospitals[i].diagnosis_correct = 2
          /\ hospitals[i].diagnosis_wrong = 0
          /\ hospitals[j].diagnosis_wrong >= 1

\* C15: get_rankings, get_game_state and get_stats leave the whole engine state
\* unchanged: hospital order, scores, counters, beds, in-flight map, timers, round
\* counter and log are the same before and after the call.
QueriesChangeNothing ==
    [][outcome'.op \in {"get_rankings", "get_game_state", "get_stats"} =>
         /\ hospitals' = hospitals
         /\ current_patients' = current_patients
         /\ diagnosis_timers' = diagnosis_timers
         /\ current_round' = current_round
         /\ game_active' = game_active
         /\ game_log' = game_log]_vars

\* get_rankings put Beta first while the engine's list still starts with Alpha
RankedBetaFirstListUntouched ==
    /\ outcome.op = "get_rankings"
    /\ Len(hospitals) = 2
    /\ outcome.value[1].name = "Beta"
    /\ outcome.value[1].score > outcome.value[2].score
    /\ hospitals[1].name = "Alpha"
    /\ DOMAIN current_patients # {}

\* C16: a submit_diagnosis that does not admit (referral because the correct
\* department is full, or misdiagnosis) leaves every department record of the
\* hospital (occupied, available, patient list), its admitted-patient list and its
\* diagnosis_correct counter unchanged; admit_patient on a full department mutates
\* nothing and returns false.
NotAdmittedLeavesBedsAlone ==
    [][/\ (ResolvedStep /\ ~outcome'.admitted) =>
             \A i \in 1..Len(hospitals) :
                 /\ hospitals'[i].departments = hospitals[i].departments
                 /\ hospitals'[i].admitted_patients = hospitals[i].admitted_patients
                 /\ hospitals'[i].diagnosis_correct = hospitals[i].diagnosis_correct
       /\ \A i \in 1..Len(hospitals), d \in DeptNames, c \in DOMAIN PATIENT_CASES :
             hospitals[i].departments[d].occupied_beds
                = hospitals[i].departments[d].total_beds
             => /\ ~CanAdmit(hospitals[i], d)
                /\ admit_patient(hospitals[i],
                                 NewPatient(c, hospitals[i].name, current_round), d)
                      = hospitals[i]]_vars

\* a hospital with its two Cardiology beds taken has just been referred: the
\* department still holds the same two patients, diagnosis_correct is still 2
FullDepartmentKeptItsTwo ==
    /\ Referred
    /\ \E i \in 1..Len(hospitals) :
          /\ hospitals[i].referred_count = 1
          /\ hospitals[i].departments["Cardiology"].occupied_beds = 2
          /\ hospitals[i].departments["Cardiology"].available_beds = 0
          /\ Len(hospitals[i].departments["Cardiology"].patients) = 2
          /\ Len(hospitals[i].admitted_patients) = 2
          /\ hospitals[i].diagnosis_correct = 2

\* C17: driven the way app.py drives it (initialize_game followed at once by
\* start_new_round; every later start_new_round only when current_round <
\* MAX_ROUNDS = 15), the round counter never exceeds 15 in any reachable state.
RoundNeverPastMaxRounds == current_round <= 15

\* New Round was pressed at round 15 while Beta's patient was still pending: the
\* warning, no sixteenth round
NewRoundRefusedAtMaxRounds ==
    /\ outcome.op = "New Round"
    /\ current_round = MAX_ROUNDS
    /\ DOMAIN current_patients = {"Beta"}

\* C18: the confirmation message of an admitted outcome carries the time-bonus
\* note exactly when the time bonus of that submission is 1, in every
\* implementation of submit_diagnosis in the repository (here: game_logic.py's).
BonusNoteExactlyWithBonus ==
    (Resolved /\ outcome.admitted) =>
        (outcome.message.bonus_note <=> (outcome.points = outcome.message.points + 1))

\* the states of the round state machine
Pending == DOMAIN current_patients

AwaitingRoundStart == current_round = 0 /\ Pending = {}

RoundInProgress == Pending # {}

RoundComplete == current_round > 0 /\ Pending = {}

\* C19: the engine follows the round state machine AwaitingRoundStart ->
\* RoundInProgress(pending set) -> RoundComplete: each resolved submit_diagnosis
\* removes exactly the submitting hospital from the pending set, the round is
\* complete exactly when the pending set is empty, and in AwaitingRoundStart or
\* RoundComplete start_new_round is the only operation that leaves that state,
\* towards RoundInProgress (every submit_diagnosis fails without effect;
\* initialize_game puts the machine back to AwaitingRoundStart).
RoundStateMachine ==
    [][/\ \A h \in CallerNames, d \in ChosenDepartments, t \in SubmitTimes :
             /\ (submit_diagnosis(h, d, t) /\ ResolvedStep) =>
                   /\ h \in Pending
                   /\ Pending' = Pending \ {h}
                   /\ current_round' = current_round
             /\ (submit_diagnosis(h, d, t) /\ ~RoundInProgress) =>
                   (FailedStep /\ UNCHANGED engine)
       /\ (RoundInProgress /\ RoundComplete') => (ResolvedStep /\ Pending' = {})
       /\ (RoundInProgress /\ ResolvedStep) => (RoundComplete' <=> Pending' = {})
       /\ (~RoundInProgress /\ RoundInProgress') => outcome'.op = "start_new_round"
       /\ (AwaitingRoundStart /\ ~AwaitingRoundStart') => outcome'.op = "start_new_round"
       /\ (RoundComplete /\ ~RoundComplete') =>
             \/ outcome'.op = "start_new_round"
             \/ outcome'.op = "initialize_game" /\ AwaitingRoundStart'
       /\ (ResolvedStep \/ outcome'.op = "start_new_round") => ~AwaitingRoundStart']_vars

\* the second round is complete, both hospitals have answered it, and a further
\* submit_diagnosis has just been turned away
RejectedInCompleteRound ==
    /\ RoundComplete
    /\ current_round = 2
    /\ submitted = {"Alpha", "Beta"}
    /\ outcome = FailureResult

\* C20: driven as app.py drives it, and under fairness (every hospital with a
\* pending patient eventually submits, New Round is eventually pressed while it is
\* enabled), a started game eventually reaches the game-over condition
\* current_round >= 15 with no pending patient, unless it is reset before; once
\* reached, the condition holds until the game is reset.
GameOverReachedAndKept ==
    /\ [](game_active => <>(GameOver \/ ~game_active))
    /\ [][GameOver => (GameOver' \/ ~game_active')]_vars

\* the game is over at round 15 with the last patient answered, after a round in
\* which Alpha's patient was superseded
GameOverAfterSupersededRound ==
    /\ GameOver
    /\ game_active
    /\ Resolved
    /\ current_round = MAX_ROUNDS
    /\ resolved = <<14, 15>>

\* C21: when start_new_round is called while some hospital still has an unresolved
\* in-flight patient, that patient is replaced by the new round's patient and the
\* hospital's score, referred_count, diagnosis_correct, diagnosis_wrong and beds
\* are unchanged: a superseded patient is never scored or penalised.
SupersededPatientNeverScored ==
    [][outcome'.op = "start_new_round" =>
         /\ \A name \in DOMAIN current_patients :
               /\ name \in DOMAIN current_patients'
               /\ current_patients'[name].round = current_round'
               /\ current_patients'[name].id # current_patients[name].id
         /\ \A i \in 1..Len(hospitals) :
               /\ hospitals'[i].score = hospitals[i].score
               /\ hospitals'[i].referred_count = hospitals[i].referred_count
               /\ hospitals'[i].diagnosis_correct = hospitals[i].diagnosis_correct
               /\ hospitals'[i].diagnosis_wrong = hospitals[i].diagnosis_wrong
               /\ hospitals'[i].departments = hospitals[i].departments
               /\ hospitals'[i].admitted_patients = hospitals[i].admitted_patients
         /\ resolved' = resolved]_vars

\* the third round has started over Alpha's unanswered patients of the first two:
\* Alpha holds the patient of round 3 and its score and counters are still 0
AlphaSupersededTwice ==
    /\ outcome.op = "start_new_round"
    /\ current_round = 3
    /\ resolved = <<0, 2>>
    /\ current_patients["Alpha"].round = 3
    /\ hospitals[1].score = 0
    /\ hospitals[1].diagnosis_wrong = 0 /\ hospitals[1].referred_count = 0

\* the hospital at position i has the name of a hospital before it in the list
LaterOfItsName(hs, i) == \E j \in 1..(i - 1) : hs[j].name = hs[i].name

\* C22: if initialize_game is given duplicate team names, every submit_diagnosis
\* for that name is applied to the first hospital registered under it: a later
\* hospital with the same name never has its score, counters or beds changed by
\* any sequence of operations, and a round issues only one in-flight patient for
\* the shared name.
DuplicateNameGoesToFirst ==
    [][/\ \A i \in 1..Len(hospitals') :
             LaterOfItsName(hospitals', i) =>
                /\ hospitals'[i].score = 0
                /\ hospitals'[i].referred_count = 0
                /\ hospitals'[i].diagnosis_correct = 0
                /\ hospitals'[i].diagnosis_wrong = 0
                /\ hospitals'[i].admitted_patients = <<>>
                /\ \A d \in DeptNames :
                      /\ hospitals'[i].departments[d].occupied_beds = 0
                      /\ hospitals'[i].departments[d].patients = <<>>
       /\ \A h \in CallerNames, d \in ChosenDepartments, t \in SubmitTimes :
             (submit_diagnosis(h, d, t) /\ ResolvedStep) =>
                \E i \in 1..Len(hospitals) :
                   /\ hospitals[i].name = h
                   /\ ~LaterOfItsName(hospitals, i)
                   /\ hospitals'[i].score # hospitals[i].score
                   /\ \A k \in 1..Len(hospitals) : k # i => hospitals'[k] = hospitals[k]
       /\ outcome'.op = "start_new_round" =>
             /\ DOMAIN current_patients' = {hospitals[i].name : i \in 1..Len(hospitals)}
             /\ Cardinality(DOMAIN current_patients') <= Len(hospitals)
             /\ get_game_state'.remaining_patients =
                   Cardinality({hospitals[i].name : i \in 1..Len(hospitals)})]_vars

\* three hospitals, two of them Alpha: after two rounds answered under that name
\* the first has the score, the third is as it was built, and one patient was
\* issued for the two
SecondAlphaNeverPlayed ==
    /\ Len(hospitals) = 3
    /\ Resolved
    /\ current_round = 2
    /\ hospitals[1].diagnosis_correct = 2
    /\ hospitals[3].name = "Alpha" /\ hospitals[3].score = 0
    /\ hospitals[3].diagnosis_correct = 0
    /\ DOMAIN current_patients = {"Beta"}

\* C23: discharge_patient(department, index) with an index inside the department's
\* current patient list removes exactly that record, decreases occupied by 1,
\* increases available by 1 and returns the record; with an index outside the list
\* (negative or >= length, including an empty department) it returns the not-found
\* value and changes nothing.
DischargeTakesTheIndexedRecord ==
    [][\A i \in 1..Len(hospitals), d \in DischargeChosenDepartments,
          index \in DischargeIndexes :
         discharge(i, d, index) =>
            LET before == hospitals[i].departments[d]
                after  == hospitals'[i].departments[d]
                n      == Len(before.patients)
            IN IF 0 <= index /\ index < n
               THEN /\ Len(after.patients) = n - 1
                    /\ \A k \in 1..(n - 1) :
                          after.patients[k] =
                             IF k <= index THEN before.patients[k]
                                           ELSE before.patients[k + 1]
                    /\ after.occupied_beds = before.occupied_beds - 1
                    /\ after.available_beds = before.available_beds + 1
                    /\ after.total_beds = before.total_beds
                    /\ outcome'.returned = <<before.patients[index + 1]>>
                    /\ \A other \in DeptNames \ {d} :
                          hospitals'[i].departments[other] =
                             hospitals[i].departments[other]
                    /\ hospitals'[i].score = hospitals[i].score
                    /\ hospitals'[i].admitted_patients = hospitals[i].admitted_patients
               ELSE /\ outcome'.returned = <<>>
                    /\ ~outcome'.found
                    /\ UNCHANGED engine]_vars

\* the first of two different Cardiology patients was discharged: the department
\* keeps the other one
FirstOfTwoDischarged ==
    /\ outcome.op = "discharge_patient"
    /\ outcome.found
    /\ Len(hospitals[1].admitted_patients) = 2
    /\ outcome.returned = <<hospitals[1].admitted_patients[1]>>
    /\ hospitals[1].departments["Cardiology"].patients
          = <<hospitals[1].admitted_patients[2]>>
    /\ hospitals[1].admitted_patients[1] # hospitals[1].admitted_patients[2]

\* C24: (team names unique) a submit_diagnosis for hospital A, whatever its outcome,
\* leaves every other hospital's score, counters, bed records and admitted list
\* unchanged, and leaves every other hospital's in-flight patient and timer entry
\* unchanged.
SubmitTouchesOnlyItsHospital ==
    [][\A h \in CallerNames, d \in ChosenDepartments, t \in SubmitTimes :
         submit_diagnosis(h, d, t) =>
            /\ \A k \in 1..Len(hospitals) :
                  hospitals[k].name # h =>
                     /\ hospitals'[k].score = hospitals[k].score
                     /\ hospitals'[k].referred_count = hospitals[k].referred_count
                     /\ hospitals'[k].diagnosis_correct = hospitals[k].diagnosis_correct
                     /\ hospitals'[k].diagnosis_wrong = hospitals[k].diagnosis_wrong
                     /\ hospitals'[k].departments = hospitals[k].departments
                     /\ hospitals'[k].admitted_patients = hospitals[k].admitted_patients
            /\ \A name \in (DOMAIN current_patients) \ {h} :
                  /\ name \in DOMAIN current_patients'
                  /\ current_patients'[name] = current_patients[name]
            /\ \A name \in (DOMAIN diagnosis_timers) \ {h} :
                  /\ name \in DOMAIN diagnosis_timers'
                  /\ diagnosis_timers'[name] = diagnosis_timers[name]]_vars

\* Alpha has answered the second round while Beta, with a score from the first
\* round, still has its patient of the second
AlphaAnsweredBetaPending ==
    /\ Resolved
    /\ current_round = 2
    /\ submitted = {"Alpha"}
    /\ DOMAIN current_patients = {"Beta"}
    /\ current_patients["Beta"].round = 2
    /\ hospitals[2].score # 0

\* the diagnoses a hospital has resolved
Diagnoses(h) == h.diagnosis_correct + h.diagnosis_wrong + h.referred_count

\* the rounds a hospital did not answer before the next one started: the rounds
\* started, less its diagnoses, less the round it is still to answer
Missed(hs, round, cp, i) ==
    round - Diagnoses(hs[i]) - (IF hs[i].name \in DOMAIN cp THEN 1 ELSE 0)

\* C25: with unique team names, a hospital resolves at most one diagnosis per
\* round: in every reachable state diagnosis_correct + diagnosis_wrong +
\* referred_count <= current_round for every hospital, with equality for a
\* hospital exactly when it has submitted in every round started so far (no round
\* of its was superseded and it has answered the current one).
AtMostOneDiagnosisPerRound ==
    [][/\ \A i \in 1..Len(hospitals') :
             /\ Diagnoses(hospitals'[i]) <= current_round'
             /\ Missed(hospitals', current_round', current_patients', i) >= 0
             /\ Diagnoses(hospitals'[i]) = current_round' <=>
                   /\ Missed(hospitals', current_round', current_patients', i) = 0
                   /\ hospitals'[i].name \notin DOMAIN current_patients'
       /\ outcome'.op = "initialize_game" =>
             \A i \in 1..Len(hospitals') :
                 Missed(hospitals', current_round', current_patients', i) = 0
       /\ outcome'.op # "initialize_game" =>
             \A i \in 1..Len(hospitals) :
                 Missed(hospitals', current_round', current_patients', i) =
                    Missed(hospitals, current_round, current_patients, i)
                    + (IF /\ outcome'.op = "start_new_round"
                          /\ hospitals[i].name \in DOMAIN current_patients
                       THEN 1 ELSE 0)]_vars

\* after three rounds Alpha has answered every round and Beta only the third
AlphaEveryRoundBetaOnlyTheLast ==
    /\ Len(hospitals) = 2
    /\ current_round = 3
    /\ DOMAIN current_patients = {}
    /\ Diagnoses(hospitals[1]) = 3
    /\ Diagnoses(hospitals[2]) = 1

\* C26: under the engine's public operations (no discharge), in every reachable
\* state and for every hospital: the length of each department's patient list
\* equals its occupied_beds, and the length of the admitted-patient list equals
\* diagnosis_correct and equals the sum of occupied_beds over all departments.
ListsMatchCounters ==
    \A i \in 1..Len(hospitals) :
        /\ \A d \in DeptNames :
              Len(hospitals[i].departments[d].patients)
                 = hospitals[i].departments[d].occupied_beds
        /\ Len(hospitals[i].admitted_patients) = hospitals[i].diagnosis_correct
        /\ Len(hospitals[i].admitted_patients) = OccupiedBeds(hospitals[i])

\* a hospital has admitted three patients, two to Cardiology and one to ICU
ThreeAdmittedInTwoDepartments ==
    /\ Resolved /\ outcome.admitted
    /\ \E i \in 1..Len(hospitals) :
          /\ hospitals[i].departments["Cardiology"].occupied_beds = 2
          /\ hospitals[i].departments["ICU"].occupied_beds = 1
          /\ Len(hospitals[i].admitted_patients) = 3
          /\ hospitals[i].diagnosis_correct = 3

\* the beds of a hospital: 16 with the table of DEPARTMENTS
TotalBeds(h) == SumOver([d \in DeptNames |-> h.departments[d].total_beds], DeptNames)

\* C27: within one game no engine operation (start_new_round, submit_diagnosis)
\* ever frees a bed: a department's occupied_beds never decreases, so once a
\* department of a hospital is full every later correct diagnosis for it by that
\* hospital is referred (-1), and the hospital's admitted count never exceeds its
\* total bed count (16).
BedsAreNeverFreed ==
    [][/\ outcome'.op \in {"start_new_round", "submit_diagnosis"} =>
             \A i \in 1..Len(hospitals), d \in DeptNames :
                 /\ hospitals'[i].departments[d].occupied_beds
                       >= hospitals[i].departments[d].occupied_beds
                 /\ hospitals[i].departments[d].occupied_beds
                       = hospitals[i].departments[d].total_beds
                    => hospitals'[i].departments[d].occupied_beds
                          = hospitals'[i].departments[d].total_beds
       /\ \A h \in DOMAIN current_patients, t \in FillSubmitTimes :
             LET d == current_patients[h].correct_dept
                 i == FindHospital(hospitals, h)
             IN (/\ submit_diagnosis(h, d, t)
                 /\ hospitals[i].departments[d].occupied_beds
                       = hospitals[i].departments[d].total_beds)
                => /\ ResolvedStep
                   /\ outcome'.correct /\ ~outcome'.admitted
                   /\ outcome'.points = -1
                   /\ hospitals'[i].score = hospitals[i].score - 1
                   /\ hospitals'[i].referred_count = hospitals[i].referred_count + 1
       /\ \A i \in 1..Len(hospitals') :
             /\ TotalBeds(hospitals'[i]) = 16
             /\ Len(hospitals'[i].admitted_patients) <= 16
             /\ hospitals'[i].diagnosis_correct <= 16]_vars

\* all 16 beds of the hospital are taken and its seventeenth correct diagnosis has
\* just been referred
ReferredWithEveryBedTaken ==
    /\ Referred
    /\ current_round = 17
    /\ Len(hospitals[1].admitted_patients) = 16
    /\ OccupiedBeds(hospitals[1]) = 16
    /\ hospitals[1].referred_count = 1

\* C28: the GameEngine and Hospital of app.py and those of game_logic.py are
\* equivalent on state: from the same engine state the same call (initialize_game,
\* start_new_round with the same draws and timestamp, submit_diagnosis) leaves
\* both with the same hospitals (scores, counters, bed records), in-flight maps,
\* timers, round counter and log, the two result dictionaries agree on success,
\* correct, admitted and points, and the rankings are the same. Both start from
\* GameEngine(), so side by side they stay equal call after call.
AppEngineStepsWithGameLogic ==
    /\ Init => app_GameEngine = EngineRecord
    /\ [][/\ outcome'.op = "initialize_game"
             => app_initialize_game(EngineRecord, Teams) = EngineRecord'
          /\ outcome'.op = "start_new_round"
             => \A draws \in [1..Len(hospitals) -> Draws], now \in RoundStartTimes :
                   start_new_round(draws, now)
                      => app_start_new_round(EngineRecord, draws, now) = EngineRecord'
          /\ outcome'.op = "submit_diagnosis"
             => \A hospital_name \in CallerNames, chosen_department \in ChosenDepartments,
                   diagnosis_time \in SideBySideSubmitTimes :
                   SideBySideCall(hospital_name, chosen_department, diagnosis_time)
                      => LET called == app_submit(EngineRecord, hospital_name,
                                                  chosen_department, diagnosis_time)
                         IN /\ called.engine = EngineRecord'
                            /\ called.result.success = outcome'.success
                            /\ outcome'.success
                                  => /\ called.result.correct = outcome'.correct
                                     /\ called.result.admitted = outcome'.admitted
                                     /\ called.result.points = outcome'.points]_vars
    /\ [](/\ app_get_rankings(EngineRecord) = get_rankings
          /\ \A i \in 1..Len(hospitals) :
                app_get_stats(hospitals[i]) = get_stats(hospitals[i]))

\* Beta, wrong once and then admitted with the time bonus, ranks behind Alpha,
\* admitted once with the bonus and once without it and then referred: the two
\* texts of the admitted message differ here, the state and the fields of the
\* result do not
BetaAdmittedBehindReferredAlpha ==
    /\ Resolved /\ outcome.admitted /\ outcome.points = 5
    /\ Len(hospitals) = 2
    /\ hospitals[1].referred_count = 1
    /\ hospitals[1].score = 8
    /\ hospitals[2].diagnosis_wrong = 1
    /\ hospitals[2].score = 3
    /\ app_get_rankings(EngineRecord)[2].name = "Beta"
    /\ app_get_rankings(EngineRecord)[2].diagnosis_accuracy = <<100, 2>>
    /\ ~outcome.message.bonus_note
    /\ AppDiagnosisResult(app_Hospital("Beta"), NewPatient(1, "Beta", current_round),
                          "Cardiology", 1).message.bonus_note

====
